---- MODULE Spec2Model ----
(***************************************************************************)
(* Model of src/autodnsip.py: one reconciliation run of main() after       *)
(* another, against a reverse-proxy inventory (NPM), a public-IP service   *)
(* (ipify) and a DNS provider (Cloudflare) whose answers are inputs.       *)
(*                                                                         *)
(* Hostnames are sequences of tokens so that str.endswith() is modelled as *)
(* a suffix test on the text, not as a lookup table.  Hostnames are        *)
(* well-formed names (no surrounding blanks, not empty), so writing one    *)
(* per line and reading back with strip() returns the same set.            *)
(***************************************************************************)
EXTENDS Integers, Sequences, FiniteSets, TLC

\* ------------------------------------------------------------------ bounds
\* number of distinct public IP addresses the IP service / provider may show
NumIPs == 2
\* most A records the provider returns for one name
MaxRecords == 2
\* deepest nesting of create -> update -> create ... explored
MaxDepth == 2

\* ------------------------------------------------------------------ values
IPs == 1..NumIPs
\* get_public_ip() returning None (or an empty string): "not current_public_ip"
NoIP == 0

\* CLOUDFLARE_CONFIG: the configured root domains
CLOUDFLARE_CONFIG == { <<"ex.com">> }

\* "a.ex.com", "bex.com" (ends with the root without being a sub-domain of
\* it) and "ex.com.org" (the root is not its suffix)
Hostnames == { <<"a", ".", "ex.com">>, <<"b", "ex.com">>, <<"ex.com", ".", "org">> }

VARIABLES
    \* persisted stores
    hosts_file,         \* proxy_hosts.txt: set of hostnames (no file = empty)
    domain_ips,         \* domain_ips.json: function hostname -> IP
    last_ip,            \* last_public_ip.txt: an IP, or NoIP when the file is absent
    \* main()'s locals
    pc,
    status,             \* how the last run ended
    exit_code,          \* the status the process ended with, -1 while it runs
    last_known_ip,
    current_domains,
    previous_domains,
    force_update,
    current_public_ip,
    stored_ips,
    todo,               \* hostnames of "for domain in current_domains" not yet visited
    todo_del,           \* hostnames of "for domain in deleted_domains" not yet visited
    \* the DNS client call in progress
    op_pc,
    op_kind,            \* which call main() made: "create", "update" or "delete"
    op_domain,
    op_results,         \* records of the for-loop not yet visited: does each need a request
    op_depth,           \* nesting of create/update calls below main()'s call
    op_rejected,        \* a write of this call was refused and only printed
    \* observations of the current run
    ops,                \* hostname -> sequence of the calls main() made for it
    calls,              \* hostnames for which a provider request was issued
    result,             \* hostname -> "none" | "ok" | "rejected" | "raised"
    writes,             \* persisted stores written in this run
    before,             \* the persisted stores as they were when the run started
    sent,               \* hostname -> the IP main() passed to create / update for it
    trace,              \* kinds of I/O of the run in the order they came, repeats folded
    \* observations carried over from the previous run
    prev_run,           \* inventory and public IP of the previous run if it completed
    repeat,             \* this run has the inventory and public IP of the previous, completed one
    retry_due,          \* hostnames whose call raised in the previous run and that have no stored IP
    after_crash,        \* the previous process was killed while it wrote the stores
    \* the surroundings of the program
    config,             \* config.CLOUDFLARE_CONFIG as the process imports it: the root domains
    faults,             \* the ways the DNS provider can fail: subset of {"lookup", "write"}
    log                 \* the provider requests of one client call, kept when log.on

vars == << hosts_file, domain_ips, last_ip, pc, status, exit_code, last_known_ip, current_domains,
           previous_domains, force_update, current_public_ip, stored_ips, todo, todo_del,
           op_pc, op_kind, op_domain, op_results, op_depth, op_rejected,
           ops, calls, result, writes, before, sent, trace, prev_run, repeat, retry_due,
           after_crash, config, faults, log >>

persisted == << hosts_file, domain_ips, last_ip >>
locals == << last_known_ip, current_domains, previous_domains, force_update,
             current_public_ip, stored_ips, todo, todo_del >>
opvars == << op_pc, op_kind, op_domain, op_results, op_depth, op_rejected >>
observed == << ops, calls, result, writes, before, sent, trace >>
control == << pc, status, exit_code >>
carried == << prev_run, repeat, retry_due, after_crash >>
environment == << config, faults, log >>

\* str.endswith
EndsWith(s, suffix) ==
    /\ Len(suffix) <= Len(s)
    /\ \A i \in 1..Len(suffix) : s[Len(s) - Len(suffix) + i] = suffix[i]

\* the root occurs anywhere in the name ("root in domain")
get_cf_config_for_domain_substring(domain) ==
    \E root \in config :
       \E k \in 0..(Len(domain) - Len(root)) :
          \A i \in 1..Len(root) : domain[k + i] = root[i]

\* lines 58-67: get_cf_config_for_domain(domain) is not None
get_cf_config_for_domain(domain) == \E root \in config : EndsWith(domain, root)

\* sequences over S of length at most n
SeqUpTo(S, n) == UNION { [1..k -> S] : k \in 0..n }

\* what the provider answers to GET dns_records?type=A&name=...: a non-2xx
\* status / connection error, or the list of the contents of the A records
LookupResponses ==
    {[ok |-> FALSE, records |-> << >>]}
        \cup {[ok |-> TRUE, records |-> r] : r \in SeqUpTo(IPs, MaxRecords)}

\* what the provider answers to a POST, PUT or DELETE: accepted; an HTTP error
\* with a JSON body (raise_for_status raises HTTPError, which the function
\* catches and prints); anything else that raises (connection error, error
\* body that is not JSON)
WriteResponses == {"ok", "rejected", "raise"}

\* the answers the provider can give in this behaviour
Lookups == { r \in LookupResponses : r.ok \/ "lookup" \in faults }
Writes == { w \in WriteResponses : w # "raise" \/ "write" \in faults }

\* one request to the provider: the method, for a GET the contents of the
\* records it returned, for a PUT or DELETE the place of the record in the
\* results of the lookup before it, for a POST or PUT the IP it carries
Request(req, records, record, content, outcome) ==
    [req |-> req, records |-> records, record |-> record, content |-> content,
     outcome |-> outcome]
NoLog == [on |-> FALSE, reqs |-> << >>]
EmptyLog == [on |-> TRUE, reqs |-> << >>]

NoHost == << >>
NoRun == [inventory |-> {}, ip |-> NoIP]
EmptyMap == [d \in {} |-> NoIP]

Snapshot == [hosts |-> hosts_file, ips |-> domain_ips, ip |-> last_ip]

\* lines 185, 186, 189
created_domains == current_domains \ previous_domains
deleted_domains == previous_domains \ current_domains
domains_changed == Cardinality(created_domains) > 0 \/ Cardinality(deleted_domains) > 0

\* the file content compared without strip(): never equal to the IP
ip_changed_always(last, current) == TRUE
\* line 199
ip_changed(last, current) == last # current

\* no file exists yet and no process has run
Boot ==
    /\ hosts_file = {}
    /\ domain_ips = EmptyMap
    /\ last_ip = NoIP
    /\ pc = "idle"
    /\ status = "none"
    /\ exit_code = -1
    /\ last_known_ip = NoIP
    /\ current_domains = {}
    /\ previous_domains = {}
    /\ force_update = FALSE
    /\ current_public_ip = NoIP
    /\ stored_ips = EmptyMap
    /\ todo = {}
    /\ todo_del = {}
    /\ op_pc = "none"
    /\ op_kind = "none"
    /\ op_domain = NoHost
    /\ op_results = << >>
    /\ op_depth = 0
    /\ op_rejected = FALSE
    /\ ops = [d \in Hostnames |-> << >>]
    /\ calls = {}
    /\ result = [d \in Hostnames |-> "none"]
    /\ writes = {}
    /\ before = Snapshot
    /\ sent = [d \in Hostnames |-> NoIP]
    /\ trace = << >>
    /\ prev_run = NoRun
    /\ repeat = FALSE
    /\ retry_due = {}
    /\ after_crash = FALSE

\* the routing configuration is the configured one, the provider can fail in
\* every way, and no request log is kept
Init ==
    /\ Boot
    /\ config = CLOUDFLARE_CONFIG
    /\ faults = {"lookup", "write"}
    /\ log = NoLog

\* ------------------------------------------------------------------ helpers
\* stored_ips[domain] = ip
MapSet(f, d, v) == [x \in (DOMAIN f) \cup {d} |-> IF x = d THEN v ELSE f[x]]
\* del stored_ips[domain]
MapDel(f, d) == [x \in (DOMAIN f) \ {d} |-> f[x]]

\* only the first record whose content differs is updated
DiffersFirstOnly(records, new_ip) ==
    [i \in 1..Len(records) |->
        records[i] # new_ip /\ \A j \in 1..(i - 1) : records[j] = new_ip]
\* line 120: record.get('content') != new_ip, for each record of the results
Differs(records, new_ip) == [i \in 1..Len(records) |-> records[i] # new_ip]
\* line 152: every record of the results is deleted
Every(records) == [i \in 1..Len(records) |-> TRUE]

\* the records of "for record in results" from the first one that needs a
\* request on; the ones before it take the else-branch (a print)
SkipCorrect(pending) ==
    LET differ == { i \in 1..Len(pending) : pending[i] }
    IN  IF differ = {} THEN << >>
        ELSE LET first == CHOOSE i \in differ : \A j \in differ : i <= j
             IN  SubSeq(pending, first, Len(pending))

\* an I/O of the given kind happens
Note(kind) ==
    trace' = IF trace # << >> /\ trace[Len(trace)] = kind THEN trace ELSE Append(trace, kind)

\* requests.get / post / put / delete against api.cloudflare.com for domain
Issue(domain) ==
    /\ calls' = calls \cup {domain}
    /\ Note(IF op_kind = "delete" THEN "delete" ELSE "upsert")

\* ------------------------------------------------------------------ main()
\* lines 166-170: read last_public_ip.txt; a new process starts
Begin ==
    /\ pc = "idle"
    /\ pc' = "token"
    /\ status' = "running"
    /\ last_known_ip' = last_ip
    /\ current_domains' = {}
    /\ previous_domains' = {}
    /\ force_update' = FALSE
    /\ current_public_ip' = NoIP
    /\ stored_ips' = EmptyMap
    /\ todo' = {}
    /\ todo_del' = {}
    /\ ops' = [d \in Hostnames |-> << >>]
    /\ calls' = {}
    /\ result' = [d \in Hostnames |-> "none"]
    /\ writes' = {}
    /\ before' = Snapshot
    /\ sent' = [d \in Hostnames |-> NoIP]
    /\ trace' = << >>
    /\ prev_run' = IF exit_code = 0
                   THEN [inventory |-> current_domains, ip |-> current_public_ip]
                   ELSE NoRun
    /\ repeat' = FALSE
    /\ retry_due' = IF status = "completed"
                    THEN { d \in Hostnames : result[d] = "raised" /\ d \notin DOMAIN domain_ips
                                             /\ ops[d] # << >> /\ ops[d][1] # "delete" }
                    ELSE {}
    /\ after_crash' = (status = "crashed")
    /\ exit_code' = -1
    /\ UNCHANGED << persisted, opvars, environment >>

\* the exception is caught and the process ends normally
UncaughtSwallowed(where) ==
    /\ pc' = "idle"
    /\ status' = where
    /\ exit_code' = 0
\* lines 173, 174, 283: an exception nobody catches leaves main(), and the
\* interpreter ends with a traceback and status 1
Uncaught(where) ==
    /\ pc' = "idle"
    /\ status' = where
    /\ exit_code' = 1

\* line 173: get_npm_token(); raise_for_status() may raise
GetNpmToken ==
    /\ pc = "token"
    /\ \E ok \in BOOLEAN :
          IF ok THEN pc' = "hosts" /\ UNCHANGED << status, exit_code >>
                ELSE Uncaught("auth_error")
    /\ Note("inventory")
    /\ UNCHANGED << persisted, locals, opvars, ops, calls, result, writes, before, sent, carried,
                    environment >>

\* lines 174-190: get_proxy_hosts(token), read proxy_hosts.txt, FORCE_UPDATE
GetProxyHosts ==
    /\ pc = "hosts"
    /\ \/ /\ Uncaught("list_error")
          /\ UNCHANGED << locals, carried >>
       \/ \E inventory \in SUBSET Hostnames, force \in BOOLEAN :
             /\ current_domains' = inventory
             /\ previous_domains' = hosts_file
             /\ force_update' = force
             /\ repeat' = (prev_run # NoRun /\ prev_run.inventory = inventory)
             /\ pc' = "ip"
             /\ UNCHANGED << status, exit_code, last_known_ip, current_public_ip, stored_ips, todo,
                             todo_del, prev_run, retry_due, after_crash >>
    /\ Note("inventory")
    /\ UNCHANGED << persisted, opvars, ops, calls, result, writes, before, sent, environment >>

\* the IP file is written before the IP is looked at
AbortNoIpAfterWrite ==
    /\ pc' = "idle"
    /\ status' = "no_ip"
    /\ exit_code' = 1
    /\ last_ip' = NoIP
    /\ writes' = writes \cup {"last_ip"}
    /\ UNCHANGED << hosts_file, domain_ips >>
\* lines 194-196: "Could not retrieve public IP, aborting update.", return 1
AbortNoIp ==
    /\ pc' = "idle"
    /\ status' = "no_ip"
    /\ exit_code' = 1
    /\ UNCHANGED << persisted, writes >>

\* lines 192-225: get_public_ip(), the early exit, json.load(domain_ips.json)
GetPublicIp ==
    /\ pc = "ip"
    /\ \E ip \in IPs \cup {NoIP} :
          /\ current_public_ip' = ip
          /\ repeat' = (repeat /\ prev_run.ip = ip)
          /\ prev_run' = NoRun
          /\ IF ip = NoIP
             THEN /\ AbortNoIp
                  /\ UNCHANGED << stored_ips, todo, todo_del >>
             ELSE IF ~domains_changed /\ ~ip_changed(last_known_ip, ip) /\ ~force_update
             THEN /\ pc' = "idle"
                  /\ status' = "early_exit"
                  /\ exit_code' = 0
                  /\ UNCHANGED << persisted, writes, stored_ips, todo, todo_del >>
             ELSE /\ pc' = "reconcile"
                  /\ stored_ips' = domain_ips
                  /\ todo' = current_domains
                  /\ todo_del' = deleted_domains
                  /\ UNCHANGED << persisted, writes, status, exit_code >>
    /\ Note("ip")
    /\ UNCHANGED << ops, calls, result, before, sent, last_known_ip, current_domains,
                    previous_domains, force_update, opvars, retry_due, after_crash,
                    environment >>

\* the hostname is updated although neither the IP changed nor the flag is set
needs_update_always(changed, force) == TRUE
\* the force flag is ignored
needs_update_ip_only(changed, force) == changed
\* a changed IP alone does not trigger the update
needs_update_force_only(changed, force) == force
\* line 241: elif ip_changed or force_update
needs_update(changed, force) == changed \/ force

\* main() calls the DNS client for domain
Call(kind, domain, entry) ==
    /\ op_pc' = entry
    /\ op_kind' = kind
    /\ op_domain' = domain
    /\ op_results' = << >>
    /\ op_depth' = 0
    /\ op_rejected' = FALSE
    /\ ops' = [ops EXCEPT ![domain] = Append(@, kind)]
    /\ sent' = [sent EXCEPT ![domain] = IF kind = "delete" THEN @ ELSE current_public_ip]

\* lines 228-253: one iteration of "for domain in current_domains"
ProcessCurrent ==
    /\ pc = "reconcile"
    /\ op_pc = "none"
    /\ \E domain \in todo :
          /\ todo' = todo \ {domain}
          /\ IF ~get_cf_config_for_domain(domain)
             THEN UNCHANGED << opvars, ops, sent >>
             ELSE IF domain \in created_domains \/ domain \notin DOMAIN stored_ips
             THEN Call("create", domain, "check")
             ELSE IF needs_update(ip_changed(last_known_ip, current_public_ip), force_update)
             THEN Call("update", domain, "uget")
             ELSE UNCHANGED << opvars, ops, sent >>
    /\ UNCHANGED << persisted, control, last_known_ip, current_domains, previous_domains,
                    force_update, current_public_ip, stored_ips, todo_del,
                    calls, result, writes, before, trace, carried, environment >>

\* lines 256-266: one iteration of "for domain in deleted_domains"
ProcessDeleted ==
    /\ pc = "reconcile"
    /\ op_pc = "none"
    /\ todo = {}
    /\ \E domain \in todo_del :
          /\ todo_del' = todo_del \ {domain}
          /\ IF ~get_cf_config_for_domain(domain)
             THEN UNCHANGED << opvars, ops, sent, stored_ips >>
             ELSE /\ Call("delete", domain, "dget")
                  /\ UNCHANGED stored_ips
    /\ UNCHANGED << persisted, control, last_known_ip, current_domains, previous_domains,
                    force_update, current_public_ip, todo,
                    calls, result, writes, before, trace, carried, environment >>

\* the call main() made is over
EndCall(raised, rejected) ==
    /\ op_pc' = "none"
    /\ op_kind' = "none"
    /\ op_domain' = NoHost
    /\ op_results' = << >>
    /\ op_depth' = 0
    /\ op_rejected' = FALSE
    /\ result' = [result EXCEPT ![op_domain] =
                     IF raised THEN "raised" ELSE IF rejected THEN "rejected" ELSE "ok"]

\* only a create is recorded
ReturnCreateOnly(raised, rejected) ==
    /\ EndCall(raised, rejected)
    /\ stored_ips' = IF op_kind = "delete" THEN MapDel(stored_ips, op_domain)
                     ELSE IF raised \/ op_kind = "update" THEN stored_ips
                     ELSE MapSet(stored_ips, op_domain, current_public_ip)
    /\ UNCHANGED << control, todo, todo_del >>

\* no try/except around the call: an exception ends the run
ReturnAbortOnRaise(raised, rejected) ==
    /\ EndCall(raised, rejected)
    /\ stored_ips' = IF op_kind = "delete" /\ ~raised THEN MapDel(stored_ips, op_domain)
                     ELSE IF raised THEN stored_ips
                     ELSE MapSet(stored_ips, op_domain, current_public_ip)
    /\ IF raised
       THEN pc' = "idle" /\ status' = "op_error" /\ exit_code' = 1
       ELSE UNCHANGED control
    /\ UNCHANGED << todo, todo_del >>

\* a hostname whose delete raised keeps its entry
ReturnKeepOnFailedDelete(raised, rejected) ==
    /\ EndCall(raised, rejected)
    /\ stored_ips' = IF op_kind = "delete"
                     THEN IF raised THEN stored_ips ELSE MapDel(stored_ips, op_domain)
                     ELSE IF raised THEN stored_ips
                     ELSE MapSet(stored_ips, op_domain, current_public_ip)
    /\ UNCHANGED << control, todo, todo_del >>

\* the call main() made comes back: lines 238-240, 249-251, 263-266
Return(raised, rejected) ==
    /\ EndCall(raised, rejected)
    /\ stored_ips' = IF op_kind = "delete" THEN MapDel(stored_ips, op_domain)
                     ELSE IF raised THEN stored_ips
                     ELSE MapSet(stored_ips, op_domain, current_public_ip)
    /\ UNCHANGED << control, todo, todo_del >>

\* the place, in the results of the latest lookup, of the record the for-loop
\* is at
Place ==
    LET gets == { i \in 1..Len(log.reqs) : log.reqs[i].req = "GET" }
        last == CHOOSE i \in gets : \A j \in gets : j <= i
    IN  Len(log.reqs[last].records) - Len(op_results) + 1

\* lines 70-77, 108-113, 142-147: requests.get(...?type=A&name=domain)
LogLookup(response) ==
    log' = IF log.on
           THEN [log EXCEPT !.reqs = Append(@, Request("GET", response.records, 0, NoIP,
                                                       IF response.ok THEN "ok" ELSE "raise"))]
           ELSE log

\* lines 86-94: requests.post with "content": ip
\* lines 121-129: requests.put on the record with "content": new_ip
\* lines 153-154: requests.delete on the record
LogWrite(req, response) ==
    log' = IF log.on
           THEN [log EXCEPT !.reqs =
                    Append(@, Request(req, << >>,
                                      IF req = "POST" THEN 0 ELSE Place,
                                      IF req = "DELETE" THEN NoIP ELSE sent[op_domain],
                                      response))]
           ELSE log

\* what the DNS client never touches
ClientFrame ==
    UNCHANGED << persisted, last_known_ip, current_domains, previous_domains,
                 force_update, current_public_ip, ops, writes, before, sent, carried, config,
                 faults >>

\* lines 69-84: check_cloudflare_record_exists() at the head of create
CheckRecordExists ==
    /\ op_pc = "check"
    /\ Issue(op_domain)
    /\ \E response \in Lookups :
          /\ LogLookup(response)
          /\ IF ~response.ok
             THEN Return(TRUE, op_rejected)
             ELSE IF Len(response.records) > 0
             THEN /\ op_depth < MaxDepth
                  /\ op_pc' = "uget"
                  /\ op_depth' = op_depth + 1
                  /\ UNCHANGED << op_kind, op_domain, op_results, op_rejected, result,
                                  stored_ips, control, todo, todo_del >>
             ELSE /\ op_pc' = "post"
                  /\ UNCHANGED << op_kind, op_domain, op_results, op_depth, op_rejected,
                                  result, stored_ips, control, todo, todo_del >>
    /\ ClientFrame

\* lines 86-105: the POST of create_cloudflare_a_record
CreatePost ==
    /\ op_pc = "post"
    /\ Issue(op_domain)
    /\ \E response \in Writes :
          /\ LogWrite("POST", response)
          /\ Return(response = "raise", op_rejected \/ response = "rejected")
    /\ ClientFrame

\* the for-loop of update goes on with the remaining records
UpdateLoop(pending, rejected) ==
    LET rest == SkipCorrect(pending)
    IN  IF rest = << >>
        THEN Return(FALSE, rejected)
        ELSE /\ op_pc' = "put"
             /\ op_results' = rest
             /\ op_rejected' = rejected
             /\ UNCHANGED << op_kind, op_domain, op_depth, result, stored_ips,
                          control, todo, todo_del >>

\* lines 107-118: the GET of update_cloudflare_a_record
UpdateGet ==
    /\ op_pc = "uget"
    /\ Issue(op_domain)
    /\ \E response \in Lookups :
          /\ LogLookup(response)
          /\ IF ~response.ok
             THEN Return(TRUE, op_rejected)
             ELSE IF Len(response.records) = 0
             THEN /\ op_depth < MaxDepth
                  /\ op_pc' = "check"
                  /\ op_depth' = op_depth + 1
                  /\ UNCHANGED << op_kind, op_domain, op_results, op_rejected, result,
                                  stored_ips, control, todo, todo_del >>
             ELSE UpdateLoop(Differs(response.records, sent[op_domain]), op_rejected)
    /\ ClientFrame

\* lines 119-139: the PUT for the next record whose content differs
UpdatePut ==
    /\ op_pc = "put"
    /\ Issue(op_domain)
    /\ \E response \in Writes :
          /\ LogWrite("PUT", response)
          /\ IF response = "raise"
             THEN Return(TRUE, op_rejected)
             ELSE UpdateLoop(Tail(op_results), op_rejected \/ response = "rejected")
    /\ ClientFrame

\* the for-loop of delete goes on with the remaining records
DeleteLoop(pending, rejected) ==
    IF pending = << >>
    THEN Return(FALSE, rejected)
    ELSE /\ op_pc' = "del"
         /\ op_results' = pending
         /\ op_rejected' = rejected
         /\ UNCHANGED << op_kind, op_domain, op_depth, result, stored_ips,
                          control, todo, todo_del >>

\* lines 141-151: the GET of delete_cloudflare_a_record
DeleteGet ==
    /\ op_pc = "dget"
    /\ Issue(op_domain)
    /\ \E response \in Lookups :
          /\ LogLookup(response)
          /\ IF ~response.ok
             THEN Return(TRUE, op_rejected)
             ELSE DeleteLoop(Every(response.records), op_rejected)
    /\ ClientFrame

\* lines 152-162: the DELETE of the next record
DeleteRecord ==
    /\ op_pc = "del"
    /\ Issue(op_domain)
    /\ \E response \in Writes :
          /\ LogWrite("DELETE", response)
          /\ IF response = "raise"
             THEN Return(TRUE, op_rejected)
             ELSE DeleteLoop(Tail(op_results), op_rejected \/ response = "rejected")
    /\ ClientFrame

\* the record is dumped before the loop over the deleted hostnames
SaveDomainIpsEarly ==
    /\ pc = "reconcile"
    /\ op_pc = "none"
    /\ todo = {}
    /\ domain_ips' = stored_ips
    /\ writes' = writes \cup {"domain_ips"}
    /\ pc' = IF todo_del = {} THEN "save_hosts" ELSE "reconcile"
    /\ Note("write")
    /\ UNCHANGED << hosts_file, last_ip, status, exit_code, locals, opvars, ops, calls, result,
                    before, sent, carried, environment >>

\* lines 268-270: json.dump(stored_ips) into domain_ips.json
SaveDomainIps ==
    /\ pc = "reconcile"
    /\ op_pc = "none"
    /\ todo = {}
    /\ todo_del = {}
    /\ domain_ips' = stored_ips
    /\ writes' = writes \cup {"domain_ips"}
    /\ pc' = "save_hosts"
    /\ Note("write")
    /\ UNCHANGED << hosts_file, last_ip, status, exit_code, locals, opvars, ops, calls, result,
                    before, sent, carried, environment >>

\* only the hostnames whose call did not raise are written
update_host_file_successful ==
    /\ pc = "save_hosts"
    /\ hosts_file' = { d \in current_domains : result[d] # "raised" }
    /\ writes' = writes \cup {"hosts"}
    /\ pc' = "save_ip"
    /\ Note("write")
    /\ UNCHANGED << domain_ips, last_ip, status, exit_code, locals, opvars, ops, calls, result,
                    before, sent, carried, environment >>

\* the file is opened for appending: the hostnames that left stay in it
update_host_file_append ==
    /\ pc = "save_hosts"
    /\ hosts_file' = hosts_file \cup current_domains
    /\ writes' = writes \cup {"hosts"}
    /\ pc' = "save_ip"
    /\ Note("write")
    /\ UNCHANGED << domain_ips, last_ip, status, exit_code, locals, opvars, ops, calls, result,
                    before, sent, carried, environment >>

\* lines 42-46, 273: update_host_file(current_domains, hosts_filename)
update_host_file ==
    /\ pc = "save_hosts"
    /\ hosts_file' = current_domains
    /\ writes' = writes \cup {"hosts"}
    /\ pc' = "save_ip"
    /\ Note("write")
    /\ UNCHANGED << domain_ips, last_ip, status, exit_code, locals, opvars, ops, calls, result,
                    before, sent, carried, environment >>

\* the IP is stored only when no call of the run raised
SaveLastIpOnSuccess ==
    /\ pc = "save_ip"
    /\ IF \E d \in Hostnames : result[d] = "raised"
       THEN UNCHANGED << last_ip, writes >>
       ELSE last_ip' = current_public_ip /\ writes' = writes \cup {"last_ip"}
    /\ pc' = "idle"
    /\ status' = "completed"
    /\ exit_code' = 0
    /\ Note("write")
    /\ UNCHANGED << hosts_file, domain_ips, locals, opvars, ops, calls, result, before, sent,
                    carried, environment >>

\* lines 275-279: write last_public_ip.txt, return 0
SaveLastIp ==
    /\ pc = "save_ip"
    /\ last_ip' = current_public_ip
    /\ writes' = writes \cup {"last_ip"}
    /\ pc' = "idle"
    /\ status' = "completed"
    /\ exit_code' = 0
    /\ Note("write")
    /\ UNCHANGED << hosts_file, domain_ips, locals, opvars, ops, calls, result, before, sent,
                    carried, environment >>

Next ==
    \/ Begin
    \/ GetNpmToken
    \/ GetProxyHosts
    \/ GetPublicIp
    \/ ProcessCurrent
    \/ ProcessDeleted
    \/ CheckRecordExists
    \/ CreatePost
    \/ UpdateGet
    \/ UpdatePut
    \/ DeleteGet
    \/ DeleteRecord
    \/ SaveDomainIps
    \/ update_host_file
    \/ SaveLastIp

Spec == Init /\ [][Next]_vars

\* the process is killed between two of the three writes of lines 268-277
Crash ==
    /\ pc \in {"save_hosts", "save_ip"}
    /\ pc' = "idle"
    /\ status' = "crashed"
    /\ exit_code' = 1
    /\ UNCHANGED << persisted, locals, opvars, observed, carried, environment >>

NextCrash == Next \/ Crash
\* the runs of the program, any of which may be killed while it persists
SpecCrash == Init /\ [][NextCrash]_vars

\* config.py is edited between two runs: a root domain is added or removed
EditConfig ==
    /\ pc = "idle"
    /\ \E roots \in SUBSET CLOUDFLARE_CONFIG :
          /\ roots # config
          /\ config' = roots
    /\ UNCHANGED << persisted, control, locals, opvars, observed, carried, faults, log >>

NextReconfig == Next \/ EditConfig
\* the runs of the program under a routing configuration that changes
SpecReconfig == Init /\ [][NextReconfig]_vars

\* the provider's lookups never fail; in some behaviours its writes never
\* raise either
InitLookupsOk ==
    /\ Boot
    /\ config = CLOUDFLARE_CONFIG
    /\ faults \in { {}, {"write"} }
    /\ log = NoLog

SpecLookupsOk == InitLookupsOk /\ [][Next]_vars

\* main() has just called create (old = NoIP: first run, nothing persisted,
\* the hostname is new) or update (the hostname is persisted with the IP old
\* and the public IP changed to ip) for the only hostname of the inventory
CallEntered(domain, ip, old) ==
    /\ hosts_file = IF old = NoIP THEN {} ELSE {domain}
    /\ domain_ips = IF old = NoIP THEN EmptyMap ELSE MapSet(EmptyMap, domain, old)
    /\ last_ip = old
    /\ pc = "reconcile"
    /\ status = "running"
    /\ exit_code = -1
    /\ last_known_ip = old
    /\ current_domains = {domain}
    /\ previous_domains = hosts_file
    /\ force_update = FALSE
    /\ current_public_ip = ip
    /\ stored_ips = domain_ips
    /\ todo = {}
    /\ todo_del = {}
    /\ op_pc = IF old = NoIP THEN "check" ELSE "uget"
    /\ op_kind = IF old = NoIP THEN "create" ELSE "update"
    /\ op_domain = domain
    /\ op_results = << >>
    /\ op_depth = 0
    /\ op_rejected = FALSE
    /\ ops = [d \in Hostnames |-> IF d = domain THEN << op_kind >> ELSE << >>]
    /\ calls = {}
    /\ result = [d \in Hostnames |-> "none"]
    /\ writes = {}
    /\ before = Snapshot
    /\ sent = [d \in Hostnames |-> IF d = domain THEN ip ELSE NoIP]
    /\ trace = << "inventory", "ip" >>
    /\ prev_run = NoRun
    /\ repeat = FALSE
    /\ retry_due = {}
    /\ after_crash = FALSE
    /\ config = CLOUDFLARE_CONFIG
    /\ faults = {"lookup", "write"}

\* one create or update call of main(), with its provider requests logged
InitClient ==
    /\ \E domain \in { <<"a", ".", "ex.com">> }, ip \in IPs, old \in IPs \cup {NoIP} :
          /\ old # ip
          /\ CallEntered(domain, ip, old)
          /\ get_cf_config_for_domain(domain)
    /\ log = EmptyLog

NextClient ==
    \/ CheckRecordExists
    \/ CreatePost
    \/ UpdateGet
    \/ UpdatePut

SpecClient == InitClient /\ [][NextClient]_vars

TypeOK ==
    /\ hosts_file \subseteq Hostnames
    /\ DOMAIN domain_ips \subseteq Hostnames
    /\ last_ip \in IPs \cup {NoIP}
    /\ status \in {"none", "running", "early_exit", "completed", "no_ip", "auth_error",
                   "list_error", "crashed"}
    /\ config \subseteq CLOUDFLARE_CONFIG
    /\ faults \subseteq {"lookup", "write"}
    /\ log.on \in BOOLEAN
    /\ exit_code \in {-1, 0, 1}

\* ------------------------------------------------------------------ properties
RunEnded == pc = "idle" /\ status # "none"
NoDnsCalls == calls = {} /\ \A d \in Hostnames : ops[d] = << >>
Entry(f, d) == IF d \in DOMAIN f THEN f[d] ELSE NoIP
\* the hostname ends with a configured root domain
Routable(d) == \E root \in CLOUDFLARE_CONFIG : EndsWith(d, root)
AllStores == {"domain_ips", "hosts", "last_ip"}
\* the run got its inventory and its public IP and did not take the early exit
PassedEarlyExit ==
    /\ current_public_ip # NoIP
    /\ domains_changed \/ last_known_ip # current_public_ip \/ force_update

\* C1 (early exit): a run that finds the persisted hostname set equal to the
\* inventory and the persisted last public IP equal to the public IP, with
\* the force flag off, issues no DNS-provider call, writes no store and
\* leaves the three stores as they were.
C1_EarlyExit ==
    ( /\ current_public_ip # NoIP
      /\ previous_domains = current_domains
      /\ last_known_ip = current_public_ip
      /\ ~force_update )
    => ( /\ NoDnsCalls
         /\ writes = {}
         /\ Snapshot = before
         /\ status = "early_exit" )

C1_Witness ==
    /\ RunEnded
    /\ status = "early_exit"
    /\ current_domains # {}
    /\ previous_domains = current_domains
    /\ last_known_ip = current_public_ip
    /\ ~force_update

\* C2 as stated (idempotence): a run with the inventory and the public IP of
\* the completed run right before it performs zero DNS-provider calls.
C2_Original == repeat => NoDnsCalls

\* C2 amended: a run with the inventory and the public IP of the completed
\* run right before it performs zero DNS-provider calls provided the force
\* flag is off in it, also when calls of the run before it failed.
C2_Idempotent == (repeat /\ ~force_update) => (NoDnsCalls /\ writes = {})

C2_Witness ==
    /\ RunEnded
    /\ repeat
    /\ ~force_update
    /\ retry_due # {}

C4_RetryNextRun ==
    (RunEnded /\ exit_code = 0)
    => \A d \in retry_due \cap current_domains : ops[d] = << "create" >>

\* C5 (record only on success): a hostname whose create or update the
\* provider failed (failed lookup, refused create, refused update) keeps the
\* entry it had before the run.
C5_RecordOnlyOnSuccess ==
    \A d \in Hostnames :
       (ops[d] \in {<< "create" >>, << "update" >>} /\ result[d] \in {"rejected", "raised"})
       => Entry(stored_ips, d) = Entry(before.ips, d)

\* what main() is to call for d in a run that passes the early-exit check
ExpectedOps(d) ==
    IF ~Routable(d) THEN << >>
    ELSE IF d \in current_domains
    THEN IF d \in created_domains \/ d \notin DOMAIN before.ips THEN << "create" >>
         ELSE IF last_known_ip # current_public_ip \/ force_update
         THEN << "update" >>
         ELSE << >>
    ELSE IF d \in deleted_domains THEN << "delete" >>
    ELSE << >>

\* C6 (partial-failure isolation): a run that passes the early-exit check
\* reaches persistence, and by then every hostname has had exactly the call
\* its own situation asks for, with a provider request made for it, whatever
\* happened to the calls of the other hostnames.
C6_Isolation ==
    /\ (pc \in {"save_hosts", "save_ip"} \/ (RunEnded /\ status = "completed"))
       => \A d \in Hostnames :
             /\ ops[d] = ExpectedOps(d)
             /\ ops[d] # << >> => d \in calls
    /\ (RunEnded /\ ~NoDnsCalls) => status = "completed"

C6_Witness ==
    /\ RunEnded
    /\ status = "completed"
    /\ \E d, e, f \in Hostnames :
          /\ result[d] = "raised"
          /\ ops[e] = << "create" >> /\ result[e] = "ok"
          /\ ops[f] = << "delete" >>

\* C7 (fatal errors): a run that ends on an inventory authentication
\* failure, an inventory listing failure or a public-IP failure has issued
\* no DNS-provider call and written no store, and the stores are as before.
C7_FatalUntouched ==
    (RunEnded /\ status \in {"auth_error", "list_error", "no_ip"})
    => (NoDnsCalls /\ writes = {} /\ Snapshot = before)

C7_Witness ==
    /\ RunEnded
    /\ status = "no_ip"
    /\ hosts_file # {}
    /\ DOMAIN domain_ips # {}
    /\ last_ip # NoIP

\* C8 as stated (exit contract): the process ends with a non-zero status
\* only when public-IP resolution fails.
C8_Original == (RunEnded /\ exit_code # 0) => status = "no_ip"

\* C8 amended: the process ends with 0 when the run completes (early exit
\* included, failed per-hostname calls included) and with a non-zero status
\* when public-IP resolution fails or when inventory authentication or
\* listing fails.
C8_ExitContract ==
    RunEnded
    => /\ status \in {"early_exit", "completed"} => exit_code = 0
       /\ status \in {"no_ip", "auth_error", "list_error"} => exit_code = 1
       /\ (\E d \in Hostnames : result[d] \in {"raised", "rejected"}) => exit_code = 0
       /\ exit_code \in {0, 1}

C8_Witness ==
    /\ RunEnded
    /\ status = "auth_error"
    /\ exit_code = 1
    /\ hosts_file # {}

\* C9 (routing exclusion): a hostname that ends with no configured root
\* domain never gets a DNS client call or a provider request and never is a
\* key of the hostname -> IP record.
C9_RoutingExclusion ==
    \A d \in Hostnames :
       ~Routable(d)
       => /\ d \notin calls
          /\ ops[d] = << >>
          /\ op_domain # d
          /\ d \notin DOMAIN stored_ips
          /\ d \notin DOMAIN domain_ips

C9_Witness ==
    /\ RunEnded
    /\ status = "completed"
    /\ \E d, e \in previous_domains \cap current_domains :
          /\ ~Routable(d)
          /\ ops[e] = << "update" >>

\* C10 (unconditional commit): a run that passes the fatal steps and the
\* early-exit check ends completed, with the three stores written, the
\* persisted hostname set equal to the inventory and the persisted last
\* public IP equal to the public IP, however many calls failed.
C10_Commit ==
    (RunEnded /\ PassedEarlyExit)
    => /\ status = "completed"
       /\ writes = AllStores
       /\ hosts_file = current_domains
       /\ last_ip = current_public_ip

C10_Witness ==
    /\ RunEnded
    /\ PassedEarlyExit
    /\ \E d, e \in Hostnames : result[d] = "raised" /\ result[e] = "rejected"

\* C11 (deleted hostnames leave the state): after a run that passes the
\* early-exit check, no hostname of the deleted set (previous minus current)
\* is a key of the persisted hostname-to-IP record, whether the remote delete
\* succeeded, failed or was not issued.
C11_DeletedLeave ==
    (RunEnded /\ status = "completed")
    => \A d \in previous_domains \ current_domains : d \notin DOMAIN domain_ips

\* C12 (force update): a run with the force flag set that got its inventory
\* and its public IP does not take the early exit, even with inventory and
\* IP unchanged, and every routable hostname of the inventory receives
\* exactly one create or update, carrying the current public IP.
C12_ForceUpdate ==
    (RunEnded /\ force_update /\ current_public_ip # NoIP)
    => /\ status = "completed"
       /\ \A d \in current_domains :
             Routable(d) => /\ ops[d] \in { << "create" >>, << "update" >> }
                            /\ sent[d] = current_public_ip

C12_Witness ==
    /\ RunEnded
    /\ force_update
    /\ previous_domains = current_domains
    /\ last_known_ip = current_public_ip
    /\ \E d \in current_domains : ops[d] = << "update" >> /\ sent[d] = current_public_ip

\* C13 (at-most-necessary calls): when the inventory changed, the IP did not
\* and the force flag is off, a create is issued for each routable created
\* hostname, and no DNS-provider call of any kind is made for a hostname that
\* is in both the previous and the current set and already has an entry in
\* the stored record.
C13_NecessaryCalls ==
    (/\ current_public_ip # NoIP
     /\ previous_domains # current_domains
     /\ last_known_ip = current_public_ip
     /\ ~force_update)
    => /\ \A d \in previous_domains \cap current_domains :
             d \in DOMAIN before.ips => ops[d] = << >> /\ d \notin calls /\ op_domain # d
       /\ RunEnded
          => \A d \in current_domains \ previous_domains :
                Routable(d) => ops[d] = << "create" >>

C13_Witness ==
    /\ RunEnded
    /\ status = "completed"
    /\ last_known_ip = current_public_ip
    /\ ~force_update
    /\ \E d \in current_domains \ previous_domains : ops[d] = << "create" >>
    /\ \E d \in previous_domains \cap current_domains :
          /\ d \in DOMAIN before.ips
          /\ before.ips[d] # current_public_ip
          /\ ops[d] = << >>

\* the place of a kind of I/O in the run
Rank(kind) ==
    CASE kind = "inventory" -> 1
      [] kind = "ip" -> 2
      [] kind = "upsert" -> 3
      [] kind = "delete" -> 4
      [] kind = "write" -> 5

\* C14 (order of effects): within one run the inventory is fetched before the
\* public IP is resolved, both precede every DNS-provider call, every
\* DNS-provider call (creates and updates for the current hostnames, then the
\* deletes) precedes the first write to a store, and no DNS-provider call
\* follows a write.
C14_OrderOfEffects ==
    /\ \A i, j \in 1..Len(trace) : i < j => Rank(trace[i]) < Rank(trace[j])
    /\ trace # << >> => trace[1] = "inventory"
    /\ \A i \in 1..Len(trace) : Rank(trace[i]) >= 3 => trace[2] = "ip"
    /\ calls # {} => \E i \in 1..Len(trace) : trace[i] \in {"upsert", "delete"}
    /\ writes # {} => trace[Len(trace)] = "write"
    /\ current_public_ip # NoIP => \E i \in 1..Len(trace) : trace[i] = "ip"

C14_Witness ==
    /\ RunEnded
    /\ trace = << "inventory", "ip", "upsert", "delete", "write" >>
    /\ writes = AllStores

\* the requests of the logged call, by method
Gets == { i \in 1..Len(log.reqs) : log.reqs[i].req = "GET" }
Posts == { i \in 1..Len(log.reqs) : log.reqs[i].req = "POST" }
Puts == { i \in 1..Len(log.reqs) : log.reqs[i].req = "PUT" }
\* the hostname and the IP main() called create or update with
TheHost == CHOOSE d \in Hostnames : ops[d] # << >>
TheIP == sent[TheHost]
\* the logged call has returned to main()
CallOver == log.on /\ op_pc = "none"
NoRaise == \A i \in 1..Len(log.reqs) : log.reqs[i].outcome # "raise"
\* the latest lookup before request i
LookupBefore(i) == CHOOSE g \in Gets : g < i /\ \A h \in Gets : h < i => h <= g
\* the places of the records whose content differs from the IP
Stale(records) == { k \in 1..Len(records) : records[k] # TheIP }

\* the claim as stated: what the first lookup returned decides the whole
\* call: no records, exactly one creation with the IP and no update; records,
\* no creation and an update of exactly the records that differ
C15_Original ==
    (CallOver /\ log.reqs[1].outcome = "ok")
    => IF log.reqs[1].records = << >>
       THEN /\ Cardinality(Posts) = 1
            /\ \A i \in Posts : log.reqs[i].content = TheIP
            /\ Puts = {}
       ELSE /\ Posts = {}
            /\ { log.reqs[i].record : i \in Puts } = Stale(log.reqs[1].records)
            /\ Cardinality(Puts) = Cardinality(Stale(log.reqs[1].records))

\* C15 (check-before-write): a create-or-update starts with a lookup and
\* issues no lookup after its first write. A creation carries the IP, comes
\* directly after a lookup that returned no records and is the last request.
\* An update carries the IP and goes to a record of the latest lookup whose
\* content differs from the IP, each such record at most once and in order.
\* Unless a request raised, a call that is over whose latest lookup returned
\* no records has made one creation, and one whose latest lookup returned
\* records has updated every record of it that differs and no other. When
\* all lookups of the call return the same records and nothing raises, the
\* call does what the first lookup decides.
C15_CheckBeforeWrite ==
    log.on =>
    /\ log.reqs # << >> => log.reqs[1].req = "GET"
    /\ \A i \in Posts :
          /\ i = Len(log.reqs)
          /\ i - 1 \in Gets
          /\ log.reqs[i - 1].outcome = "ok"
          /\ log.reqs[i - 1].records = << >>
          /\ log.reqs[i].content = TheIP
    /\ \A i \in Puts :
          /\ \A g \in Gets : g < i
          /\ log.reqs[i].record \in Stale(log.reqs[LookupBefore(i)].records)
          /\ log.reqs[i].content = TheIP
          /\ \A j \in Puts : j < i => log.reqs[j].record < log.reqs[i].record
    /\ (CallOver /\ NoRaise)
       => LET last == LookupBefore(Len(log.reqs) + 1)
          IN  IF log.reqs[last].records = << >>
              THEN Posts = {last + 1} /\ Puts = {}
              ELSE /\ Posts = {}
                   /\ { log.reqs[i].record : i \in Puts } = Stale(log.reqs[last].records)
    /\ (NoRaise /\ \A g \in Gets : log.reqs[g].records = log.reqs[1].records)
       => C15_Original

C15_Witness ==
    /\ CallOver
    /\ NoRaise
    /\ ops[TheHost] = << "create" >>
    /\ Len(log.reqs) = 4
    /\ Gets = {1, 2}
    /\ log.reqs[1].records # log.reqs[2].records
    /\ Stale(log.reqs[2].records) = {1, 2}
    /\ Puts = {3, 4}
    /\ log.reqs[3].outcome = "rejected"

\* C16 (crash self-correction): when a run is killed after it wrote some but
\* not all of the three stores, the next run that completes leaves the
\* persisted hostname set equal to the inventory, the persisted last public
\* IP equal to the public IP, and every key of the persisted record in the
\* inventory.
C16_SelfCorrection ==
    (RunEnded /\ status = "completed" /\ after_crash)
    => /\ hosts_file = current_domains
       /\ last_ip = current_public_ip
       /\ DOMAIN domain_ips \subseteq current_domains

\* C17 (tracked keys stay within the inventory): starting from the empty
\* state, with the routing configuration fixed and no crash while persisting,
\* after every run (completed, early-exited or aborted) every key of the
\* persisted hostname-to-IP record is in the persisted hostname set and is a
\* routable hostname.
C17_TrackedKeys ==
    pc = "idle" => \A d \in DOMAIN domain_ips : d \in hosts_file /\ Routable(d)

C17_Witness ==
    /\ RunEnded
    /\ status = "completed"
    /\ domain_ips # EmptyMap
    /\ \E d \in DOMAIN before.ips :
          /\ d \notin current_domains
          /\ result[d] = "raised"
          /\ d \notin DOMAIN domain_ips

\* C18 (one delete attempt per departure): a delete is attempted only for a
\* hostname that was in the persisted hostname set when the run started and
\* is not in the inventory, and at most once in the run; for a routable
\* hostname of the persisted set that left the inventory, the first run that
\* ends normally attempts the delete and, whether it failed or not, leaves
\* the hostname out of the persisted set, which a hostname enters only by
\* being in the inventory again, so no later run attempts it.
C18_OneDeleteAttempt ==
    \A d \in Hostnames :
       /\ ((\E i \in 1..Len(ops[d]) : ops[d][i] = "delete")
              \/ (op_kind = "delete" /\ op_domain = d))
          => /\ ops[d] = << "delete" >>
             /\ d \in before.hosts
             /\ d \notin current_domains
       /\ (RunEnded /\ exit_code = 0 /\ Routable(d)
              /\ d \in before.hosts /\ d \notin current_domains)
          => /\ ops[d] = << "delete" >>
             /\ d \notin hosts_file
       /\ (d \in hosts_file /\ d \notin before.hosts) => d \in current_domains

C18_Witness ==
    /\ RunEnded
    /\ \E d \in Hostnames :
          /\ Routable(d)
          /\ d \in before.hosts
          /\ d \notin current_domains
          /\ ops[d] = << "delete" >>
          /\ result[d] = "raised"
          /\ d \notin hosts_file

\* the claim as stated: whenever no lookup ever fails, the values of the
\* record equal the last public IP after every run
C19_Original ==
    pc = "idle" => \A d \in DOMAIN domain_ips : domain_ips[d] = last_ip

\* C19 (stored IPs agree with the last public IP): starting from the empty
\* state, with the routing configuration fixed, no crash while persisting
\* and no DNS-client call that ever raises (the lookups do not fail and the
\* creates and updates do not raise), after every run every value of the
\* persisted hostname-to-IP record equals the persisted last public IP.
C19_Agree ==
    (pc = "idle" /\ faults = {})
    => \A d \in DOMAIN domain_ips : domain_ips[d] = last_ip

C19_Witness ==
    /\ RunEnded
    /\ status = "completed"
    /\ faults = {}
    /\ before.ip # NoIP
    /\ before.ip # last_ip
    /\ \E d, e \in DOMAIN domain_ips :
          /\ d \in DOMAIN before.ips
          /\ before.ips[d] # last_ip
          /\ result[d] = "rejected"
          /\ e \notin DOMAIN before.ips

\* C20 (termination of the mutual fallback): a create or update invocation
\* for one hostname ends after a bounded number of provider lookups, here
\* fewer than the nesting depth explored, and issues at most one record
\* creation, whatever the lookups return.
C20_BoundedLookups ==
    log.on => Cardinality(Gets) <= MaxDepth /\ Cardinality(Posts) <= 1

====
